---- MODULE Spec2Model ----
(***************************************************************************)
(* A model of zim_to_dir (src/src/zim_to_dir.cpp): the command line is     *)
(* parsed, a BatchWriter is constructed, the archive is opened, the output *)
(* directory is created, and every record of the archive is classified and *)
(* either dropped or handed to BatchWriter::write, which frames it into    *)
(* the current numbered, compressed batch file.                            *)
(*                                                                         *)
(* Strings (titles, file names) are sequences of one-character strings;    *)
(* a non-ASCII character is the sequence of its UTF-8 bytes, each named by *)
(* its two hex digits.  File contents are sequences of bytes (0..255): the *)
(* bytes handed to the compressing sink, i.e. the decompressed content.    *)
(***************************************************************************)
EXTENDS Integers, Sequences, FiniteSets

VARIABLES
    pc,          \* the position of main
    args,        \* the command line: what cxxopts parsed
    exitCode,    \* <<>> while running, <<status>> once the process has ended
    exc,         \* the exception thrown in the try block: "none", "io", "length_error"
    reported,    \* whether the catch handler has printed e.what()
    documents_,  \* BatchWriter::documents_
    zeroes_,     \* BatchWriter::zeroes_
    curr_num_,   \* BatchWriter::curr_num_
    written_,    \* BatchWriter::written_
    out_,        \* BatchWriter::out_: 0 is the null pointer, else an index of sinks
    sinks,       \* every zstr::ofstream constructed so far, in construction order
    archiveOpen, \* history: whether zim::File f was constructed
    dirCreated,  \* whether fs::create_directory has returned
    nread,       \* how many records the iterator has yielded
    doc_no,      \* main's doc_no: how many records were admitted
    blob,        \* the argument of the running write call: <<>> or <<payload>>
    admitted,    \* history: the payloads bw.write was called with, in order
    it,          \* the filter check's record under classification
    decisions,   \* the filter check's diagnostic lines: the decisions reported
    blob_size,   \* the size check's blob.size(): a size_t as 8 base-256 digits
    size,        \* the size check's local size (uint32_t), 4 base-256 digits
    streamed     \* the size check's sink: the prefix bytes and the payload count

vars == <<pc, args, exitCode, exc, reported, documents_, zeroes_, curr_num_,
          written_, out_, sinks, archiveOpen, dirCreated, nread, doc_no, blob,
          admitted, it, decisions, blob_size, size, streamed>>

\* The variables of the check of lines 99-101 on sizes of 64 bits.
wideVars == <<blob_size, size, streamed>>

bwVars == <<documents_, zeroes_, curr_num_, written_, out_, sinks>>

-----------------------------------------------------------------------------
(* Bounds of the model. *)

\* The longest archive: the number of records the iterator may yield.
MaxRecords == 10
\* The largest -d (documents per file) the command line is given.
MaxDocuments == 2

-----------------------------------------------------------------------------
(* Strings. *)

pattern_en == <<"(", "d", "i", "s", "a", "m", "b", "i", "g", "u", "a", "t",
                "i", "o", "n", ")">>

pattern_hu == <<"(", "e", "g", "y", "C3", "A9", "r", "t", "e", "l", "m", "C5",
                "B1", "s", "C3", "AD", "t", "C5", "91", " ", "l", "a", "p", ")">>

\* std::map disambig: the markers of the supported languages.
disambig == [l \in {"hu", "en"} |-> IF l = "hu" THEN pattern_hu ELSE pattern_en]

\* disambig[language]: operator[] default-constructs the value of a missing key.
DisambigLookup(language) ==
    IF language \in DOMAIN disambig THEN disambig[language] ELSE <<>>

\* std::string::find(pattern) != npos.  The empty pattern is found at
\* position 0 of every string, the empty one included.
Contains(title, pattern) ==
    \E i \in 0..(Len(title) - Len(pattern)) :
        SubSeq(title, i + 1, i + Len(pattern)) = pattern

DigitChar(d) ==
    CASE d = 0 -> "0" [] d = 1 -> "1" [] d = 2 -> "2" [] d = 3 -> "3"
      [] d = 4 -> "4" [] d = 5 -> "5" [] d = 6 -> "6" [] d = 7 -> "7"
      [] d = 8 -> "8" [] d = 9 -> "9"

\* std::to_string of an unsigned integer: its decimal digits.
RECURSIVE to_string(_)
to_string(n) ==
    IF n < 10 THEN <<DigitChar(n)>>
    ELSE to_string(n \div 10) \o <<DigitChar(n % 10)>>

\* std::string(count, '0').
Zeros(count) == [i \in 1..count |-> "0"]

Suffix == <<".", "h", "t", "m", "l", "s", ".", "g", "z">>

\* zeroes_ - num.length() is computed in size_t: when the number has more
\* digits than zeroes_ the difference wraps to almost 2^64, which is more
\* than std::string::max_size(), and the constructor throws length_error.
PaddingThrows(zeroes, num) == Len(num) > zeroes

\* FileName without the padding.
FileNameUnpadded(zeroes, num) == num \o Suffix

\* std::string(zeroes_ - num.length(), '0') + num + ".htmls.gz",
\* where the padding does not throw.
FileName(zeroes, num) == Zeros(zeroes - Len(num)) \o num \o Suffix

-----------------------------------------------------------------------------
(* Bytes. *)

\* The four bytes of htonl(static_cast<uint32_t>(n)) in memory order, most
\* significant first.  The cast keeps the low 32 bits of n, which are the
\* four low base-256 digits taken here; anything above them is dropped.
\* The four bytes without htonl on a little-endian host.
LittleEndian4(n) ==
    << n % 256, (n \div 256) % 256, (n \div 65536) % 256, (n \div 16777216) % 256 >>

BigEndian4(n) ==
    << (n \div 16777216) % 256, (n \div 65536) % 256, (n \div 256) % 256, n % 256 >>

\* uint32_t size = htonl(static_cast<uint32_t>(blob.size())).
LengthPrefix(payload) == BigEndian4(Len(payload))

-----------------------------------------------------------------------------
(* The records of the archive and the command lines. *)

Titles == { <<"F", "o", "o">>,
            <<"F", "o", "o", " ">> \o pattern_en,
            pattern_hu,
            <<>> }

Payloads == { <<>>, <<0, 1>> }

Records == [ns : {"A", "I"}, redirect : BOOLEAN, deleted : BOOLEAN,
            title : Titles, data : Payloads]

Languages == {"hu", "en", "xx"}

\* The values of -Z: no digit at all, one digit (the tenth file needs two)
\* and two digits (every name of the run is padded or fits).
Widths == {0, 1, 2}

\* What options->parse sees: whether an option is malformed (cxxopts throws
\* OptionException), whether -h, -i and -o are given, and the values of
\* -l, -d and -Z (any size_t is accepted, 0 included).
CommandLines == [malformed : BOOLEAN, help : BOOLEAN, input : BOOLEAN,
                 output : BOOLEAN, language : Languages,
                 documents : 0..MaxDocuments, zeroes : Widths]

\* Classify with the isRedirect and isDeleted tests in the other order.
ClassifyDeletedFirst(rec, pattern) ==
    IF rec.ns # "A" THEN "DropNotArticleNamespace"
    ELSE IF rec.deleted THEN "DropDeleted"
    ELSE IF rec.redirect THEN "DropRedirect"
    ELSE IF Contains(rec.title, pattern) THEN "DropDisambiguation"
    ELSE "Admit"

\* The if / else-if chain of the loop body: the first condition that holds
\* decides.
Classify(rec, pattern) ==
    IF rec.ns # "A" THEN "DropNotArticleNamespace"
    ELSE IF rec.redirect THEN "DropRedirect"
    ELSE IF rec.deleted THEN "DropDeleted"
    ELSE IF Contains(rec.title, pattern) THEN "DropDisambiguation"
    ELSE "Admit"

-----------------------------------------------------------------------------
(* The sinks. *)

\* A zstr::ofstream just constructed on output_dir_ / name.
NewSink(name) == [name |-> name, data |-> <<>>, open |-> TRUE]

\* The destructor of the zstr::ofstream that pointer i owns (none when null):
\* the stream is flushed and closed.
CloseSink(s, i) == IF i = 0 THEN s ELSE [s EXCEPT ![i].open = FALSE]

\* out_->write(bytes, n) on the sink that pointer i owns.
WriteSink(s, i, bytes) == [s EXCEPT ![i].data = @ \o bytes]

\* written_ == documents_, the test that opens the next file.
NeedsRotation(written, documents) == written = documents

-----------------------------------------------------------------------------
(* The run. *)

Init ==
    /\ pc = "parse"
    /\ args \in CommandLines
    /\ exitCode = <<>>
    /\ exc = "none"
    /\ reported = FALSE
    /\ documents_ = 0
    /\ zeroes_ = 0
    /\ curr_num_ = 0
    /\ written_ = 0
    /\ out_ = 0
    /\ sinks = <<>>
    /\ archiveOpen = FALSE
    /\ dirCreated = FALSE
    /\ nread = 0
    /\ doc_no = 0
    /\ blob = <<>>
    /\ admitted = <<>>
    /\ it = <<>>
    /\ decisions = <<>>
    /\ blob_size = <<>>
    /\ size = <<>>
    /\ streamed = [prefix |-> <<>>, count |-> <<>>]

\* exit(status), called from ArgumentParser::parse.
Exit(status) ==
    /\ pc' = "exited"
    /\ exitCode' = <<status>>

\* Parse with a constructor that starts written_ at 0 instead of at
\* documents.
ParseWithoutSentinel ==
    /\ pc = "parse"
    /\ IF args.malformed \/ (~args.help /\ (~args.input \/ ~args.output)) THEN
           /\ Exit(1)
           /\ UNCHANGED <<documents_, zeroes_, written_>>
       ELSE IF args.help THEN
           /\ Exit(0)
           /\ UNCHANGED <<documents_, zeroes_, written_>>
       ELSE
           /\ pc' = "open"
           /\ documents_' = args.documents
           /\ zeroes_' = args.zeroes
           /\ written_' = 0
           /\ UNCHANGED exitCode
    /\ curr_num_' = 0
    /\ out_' = 0
    /\ UNCHANGED <<args, exc, reported, sinks, archiveOpen, dirCreated, nread,
                   doc_no, blob, admitted, it, decisions, wideVars>>

\* Parse followed at once by fs::create_directory, ahead of the archive.
ParseCreatesDirectory ==
    /\ pc = "parse"
    /\ IF args.malformed \/ (~args.help /\ (~args.input \/ ~args.output)) THEN
           /\ Exit(1)
           /\ UNCHANGED <<documents_, zeroes_, written_, dirCreated>>
       ELSE IF args.help THEN
           /\ Exit(0)
           /\ UNCHANGED <<documents_, zeroes_, written_, dirCreated>>
       ELSE
           /\ pc' = "open"
           /\ documents_' = args.documents
           /\ zeroes_' = args.zeroes
           /\ written_' = args.documents
           /\ dirCreated' = TRUE
           /\ UNCHANGED exitCode
    /\ curr_num_' = 0
    /\ out_' = 0
    /\ UNCHANGED <<args, exc, reported, sinks, archiveOpen, nread,
                   doc_no, blob, admitted, it, decisions, wideVars>>

\* Parse with a constructor that opens the first file at once.
ParseOpensFirstFile ==
    /\ pc = "parse"
    /\ IF args.malformed \/ (~args.help /\ (~args.input \/ ~args.output)) THEN
           /\ Exit(1)
           /\ UNCHANGED <<documents_, zeroes_, written_, curr_num_, out_, sinks>>
       ELSE IF args.help THEN
           /\ Exit(0)
           /\ UNCHANGED <<documents_, zeroes_, written_, curr_num_, out_, sinks>>
       ELSE
           /\ pc' = "open"
           /\ documents_' = args.documents
           /\ zeroes_' = args.zeroes
           /\ written_' = 0
           /\ curr_num_' = 1
           /\ out_' = 1
           /\ sinks' = <<NewSink(to_string(1) \o Suffix)>>
           /\ UNCHANGED exitCode
    /\ UNCHANGED <<args, exc, reported, archiveOpen, dirCreated, nread,
                   doc_no, blob, admitted, it, decisions, wideVars>>

\* ArgumentParser::parse, then the construction of bw.  An unsupported
\* language only prints a message: parse returns args all the same.
Parse ==
    /\ pc = "parse"
    /\ IF args.malformed THEN
           /\ Exit(1)
           /\ UNCHANGED <<documents_, zeroes_, written_>>
       ELSE IF args.help THEN
           /\ Exit(0)
           /\ UNCHANGED <<documents_, zeroes_, written_>>
       ELSE IF ~args.input \/ ~args.output THEN
           /\ Exit(1)
           /\ UNCHANGED <<documents_, zeroes_, written_>>
       ELSE
           /\ pc' = "open"
           /\ documents_' = args.documents
           /\ zeroes_' = args.zeroes
           /\ written_' = args.documents
           /\ UNCHANGED exitCode
    /\ curr_num_' = 0
    /\ out_' = 0
    /\ UNCHANGED <<args, exc, reported, sinks, archiveOpen, dirCreated, nread,
                   doc_no, blob, admitted, it, decisions, wideVars>>

\* Throw with the handler inside the loop: the exception is swallowed and
\* the loop goes on.
ThrowAndContinue(kind) ==
    /\ pc' = "loop"
    /\ exc' = kind
    /\ blob' = <<>>

\* An exception leaves the try block for the catch handler.
Throw(kind) ==
    /\ pc' = "caught"
    /\ exc' = kind
    /\ blob' = <<>>

\* zim::File f(input-file): the archive opens, or the constructor throws.
OpenArchive ==
    /\ pc = "open"
    /\ \/ /\ archiveOpen' = TRUE
          /\ pc' = "mkdir"
          /\ UNCHANGED <<exc, blob>>
       \/ /\ Throw("io")
          /\ UNCHANGED archiveOpen
    /\ UNCHANGED <<args, exitCode, reported, documents_, zeroes_, curr_num_,
                   written_, out_, sinks, dirCreated, nread, doc_no, admitted,
                   it, decisions, wideVars>>

\* fs::create_directory(output-dir): returns, or throws filesystem_error.
CreateDirectory ==
    /\ pc = "mkdir"
    /\ \/ /\ dirCreated' = TRUE
          /\ pc' = "loop"
          /\ UNCHANGED <<exc, blob, archiveOpen>>
       \/ /\ Throw("io")
          /\ UNCHANGED <<dirCreated, archiveOpen>>
    /\ UNCHANGED <<args, exitCode, reported, documents_, zeroes_, curr_num_,
                   written_, out_, sinks, nread, doc_no, admitted, it,
                   decisions, wideVars>>

\* One pass of the loop body over the record the iterator yields; an
\* admitted record enters bw.write.
\* The loop body with write called for every record, dropped or not.
ProcessRecordWritesAll ==
    /\ pc = "loop"
    /\ nread < MaxRecords
    /\ \E rec \in Records :
          /\ nread' = nread + 1
          /\ blob' = <<rec.data>>
          /\ pc' = "write"
          /\ IF Classify(rec, DisambigLookup(args.language)) = "Admit" THEN
                 /\ doc_no' = doc_no + 1
                 /\ admitted' = Append(admitted, rec.data)
             ELSE
                 UNCHANGED <<doc_no, admitted>>
    /\ UNCHANGED <<args, exitCode, exc, reported, documents_, zeroes_,
                   curr_num_, written_, out_, sinks, archiveOpen, dirCreated,
                   it, decisions, wideVars>>

ProcessRecord ==
    /\ pc = "loop"
    /\ nread < MaxRecords
    /\ \E rec \in Records :
          /\ nread' = nread + 1
          /\ IF Classify(rec, DisambigLookup(args.language)) = "Admit" THEN
                 /\ doc_no' = doc_no + 1
                 /\ blob' = <<rec.data>>
                 /\ admitted' = Append(admitted, rec.data)
                 /\ pc' = "write"
             ELSE
                 UNCHANGED <<doc_no, blob, admitted, pc>>
    /\ UNCHANGED <<args, exitCode, exc, reported, documents_, zeroes_,
                   curr_num_, written_, out_, sinks, archiveOpen, dirCreated,
                   it, decisions, wideVars>>

\* Reading the archive fails while the iterator advances or is dereferenced.
ReadFailure ==
    /\ pc = "loop"
    /\ Throw("io")
    /\ UNCHANGED archiveOpen
    /\ UNCHANGED <<args, exitCode, reported, documents_, zeroes_, curr_num_,
                   written_, out_, sinks, dirCreated, nread, doc_no, admitted,
                   it, decisions, wideVars>>

\* it == f.end(): the try block ends.
EndOfArchive ==
    /\ pc = "loop"
    /\ pc' = "return"
    /\ UNCHANGED archiveOpen
    /\ UNCHANGED <<args, exitCode, exc, reported, documents_, zeroes_,
                   curr_num_, written_, out_, sinks, dirCreated, nread, doc_no,
                   blob, admitted, it, decisions, wideVars>>

\* write, lines 93-96 up to the construction of the new zstr::ofstream:
\* the number is incremented, the name is built (or the padding throws),
\* and the file is opened (or the constructor throws).  The sink out_ owns
\* is still open: reset has not run yet.
Rotate ==
    /\ pc = "write"
    /\ NeedsRotation(written_, documents_)
    /\ curr_num_' = curr_num_ + 1
    /\ LET num == to_string(curr_num_ + 1) IN
         IF PaddingThrows(zeroes_, num) THEN
             /\ Throw("length_error")
             /\ UNCHANGED sinks
         ELSE
             \/ /\ sinks' = Append(sinks, NewSink(FileName(zeroes_, num)))
                /\ pc' = "reset"
                /\ UNCHANGED <<exc, blob>>
             \/ /\ Throw("io")
                /\ UNCHANGED sinks
    /\ UNCHANGED <<args, exitCode, reported, documents_, zeroes_, written_,
                   out_, archiveOpen, dirCreated, nread, doc_no, admitted, it,
                   decisions, wideVars>>

\* Reset without written_ = 0.
ResetKeepsCount ==
    /\ pc = "reset"
    /\ out_' = Len(sinks)
    /\ sinks' = CloseSink(sinks, out_)
    /\ pc' = "frame"
    /\ UNCHANGED <<args, exitCode, exc, reported, documents_, zeroes_,
                   curr_num_, written_, archiveOpen, dirCreated, nread, doc_no,
                   blob, admitted, it, decisions, wideVars>>

\* Reset with out_ a plain pointer: the sink it pointed to is not destroyed.
ResetLeaksOld ==
    /\ pc = "reset"
    /\ out_' = Len(sinks)
    /\ written_' = 0
    /\ pc' = "frame"
    /\ UNCHANGED <<args, exitCode, exc, reported, documents_, zeroes_,
                   curr_num_, sinks, archiveOpen, dirCreated, nread, doc_no,
                   blob, admitted, it, decisions, wideVars>>

\* write, lines 96-97: out_.reset takes the new sink and destroys the one
\* it owned; written_ = 0.
Reset ==
    /\ pc = "reset"
    /\ out_' = Len(sinks)
    /\ sinks' = CloseSink(sinks, out_)
    /\ written_' = 0
    /\ pc' = "frame"
    /\ UNCHANGED <<args, exitCode, exc, reported, documents_, zeroes_,
                   curr_num_, archiveOpen, dirCreated, nread, doc_no, blob,
                   admitted, it, decisions, wideVars>>

\* write, lines 99-102: the length prefix, the payload, written_++.  Either
\* out_->write may throw; the second one after the prefix went out.
Frame ==
    /\ \/ pc = "frame"
       \/ pc = "write" /\ ~NeedsRotation(written_, documents_)
    /\ \/ /\ sinks' = WriteSink(WriteSink(sinks, out_, LengthPrefix(blob[1])),
                                out_, blob[1])
          /\ written_' = written_ + 1
          /\ blob' = <<>>
          /\ pc' = "loop"
          /\ UNCHANGED exc
       \/ /\ Throw("io")
          /\ UNCHANGED <<sinks, written_>>
       \/ /\ sinks' = WriteSink(sinks, out_, LengthPrefix(blob[1]))
          /\ Throw("io")
          /\ UNCHANGED written_
    /\ UNCHANGED <<args, exitCode, reported, documents_, zeroes_, curr_num_,
                   out_, archiveOpen, dirCreated, nread, doc_no, admitted, it,
                   decisions, wideVars>>

\* Return with a failure status after an exception.
ReturnFailureStatus ==
    /\ pc \in {"return", "caught"}
    /\ reported' = (pc = "caught")
    /\ sinks' = CloseSink(sinks, out_)
    /\ exitCode' = IF pc = "caught" THEN <<1>> ELSE <<0>>
    /\ pc' = "exited"
    /\ UNCHANGED <<args, exc, documents_, zeroes_, curr_num_,
                   written_, out_, archiveOpen, dirCreated, nread, doc_no,
                   blob, admitted, it, decisions, wideVars>>

\* Return with bw never destroyed (the process ends without running
\* ~BatchWriter).
ReturnWithoutDestructor ==
    /\ pc \in {"return", "caught"}
    /\ reported' = (pc = "caught")
    /\ exitCode' = <<0>>
    /\ pc' = "exited"
    /\ UNCHANGED <<args, exc, documents_, zeroes_, curr_num_,
                   written_, out_, sinks, archiveOpen, dirCreated, nread,
                   doc_no, blob, admitted, it, decisions, wideVars>>

\* Lines 153-157: the catch handler, when an exception reached it, prints
\* e.what(); then main runs off its end: bw is destroyed, and with it the
\* sink out_ owns; the status is 0.
Return ==
    /\ pc \in {"return", "caught"}
    /\ reported' = (pc = "caught")
    /\ sinks' = CloseSink(sinks, out_)
    /\ exitCode' = <<0>>
    /\ pc' = "exited"
    /\ UNCHANGED <<args, exc, documents_, zeroes_, curr_num_,
                   written_, out_, archiveOpen, dirCreated, nread, doc_no,
                   blob, admitted, it, decisions, wideVars>>

Next ==
    \/ Parse
    \/ OpenArchive
    \/ CreateDirectory
    \/ ProcessRecord
    \/ ReadFailure
    \/ EndOfArchive
    \/ Rotate
    \/ Reset
    \/ Frame
    \/ Return

Spec == Init /\ [][Next]_vars

-----------------------------------------------------------------------------
(* The classification on its own: one record, drawn from Records, is put   *)
(* through the loop body's if / else-if chain twice, under every language, *)
(* with the admitted counter and the writer's counter in different states. *)

FilterInit ==
    /\ pc = "filter"
    /\ args \in {a \in CommandLines : ~a.malformed /\ ~a.help /\ a.input /\ a.output
                                        /\ a.documents = MaxDocuments
                                        /\ a.zeroes = 2}
    /\ it \in {<<rec>> : rec \in Records}
    /\ decisions = <<>>
    /\ blob_size = <<>>
    /\ size = <<>>
    /\ streamed = [prefix |-> <<>>, count |-> <<>>]
    /\ doc_no \in 0..1
    /\ exitCode = <<>>
    /\ exc = "none"
    /\ reported = FALSE
    /\ documents_ = MaxDocuments
    /\ zeroes_ = 2
    /\ curr_num_ = 0
    /\ written_ \in {0, MaxDocuments}
    /\ out_ = 0
    /\ sinks = <<>>
    /\ archiveOpen = TRUE
    /\ dirCreated = TRUE
    /\ nread = 0
    /\ blob = <<>>
    /\ admitted = <<>>

\* Lines 130-151 on the record it: the decision goes to the diagnostic
\* stream, and Admit increments doc_no.
FilterClassify ==
    /\ pc = "filter"
    /\ Len(decisions) < 2
    /\ LET d == Classify(it[1], DisambigLookup(args.language)) IN
         /\ decisions' = Append(decisions, d)
         /\ doc_no' = IF d = "Admit" THEN doc_no + 1 ELSE doc_no
    /\ UNCHANGED <<pc, args, exitCode, exc, reported, documents_, zeroes_,
                   curr_num_, written_, out_, sinks, archiveOpen, dirCreated,
                   nread, blob, admitted, it, wideVars>>

FilterNext == FilterClassify

FilterSpec == FilterInit /\ [][FilterNext]_vars

-----------------------------------------------------------------------------
(* Lines 99-101 on a blob whose size needs more than 32 bits.  A size_t is
   written as its 8 base-256 digits, most significant first, and a uint32_t
   as its 4 digits: the sizes in question are beyond the integers the
   checker computes with.  The sink is described by the prefix bytes it
   received and by the number of payload bytes it received. *)

SizeDigits == {0, 1, 255}

\* The sizes of the blobs: below 2^63, as every object in memory is.
WideSizes == {d \in [1..8 -> SizeDigits] : d[1] \in {0, 1}}

\* static_cast<uint32_t>(x) of a size_t x: x modulo 2^32, which is the
\* number made of the four low digits.
Cast32(x) == SubSeq(x, 5, 8)

Reverse4(b) == <<b[4], b[3], b[2], b[1]>>

\* htonl on a little-endian host swaps the four bytes of the value.
htonl(x) == Reverse4(x)

\* The bytes of a uint32_t in memory on a little-endian host, lowest
\* address first: out_->write(reinterpret_cast<char*>(&size), 4) sends
\* these.
HostBytes(x) == Reverse4(x)

WideInit ==
    /\ pc = "cast"
    /\ args \in {a \in CommandLines : ~a.malformed /\ ~a.help /\ a.input /\ a.output
                                        /\ a.language = "hu"
                                        /\ a.documents = MaxDocuments
                                        /\ a.zeroes = 2}
    /\ blob_size \in WideSizes
    /\ size = <<>>
    /\ streamed = [prefix |-> <<>>, count |-> <<>>]
    /\ exitCode = <<>>
    /\ exc = "none"
    /\ reported = FALSE
    /\ documents_ = MaxDocuments
    /\ zeroes_ = 2
    /\ curr_num_ = 1
    /\ written_ = 0
    /\ out_ = 0
    /\ sinks = <<>>
    /\ archiveOpen = TRUE
    /\ dirCreated = TRUE
    /\ nread = 1
    /\ doc_no = 1
    /\ blob = <<>>
    /\ admitted = <<>>
    /\ it = <<>>
    /\ decisions = <<>>

\* Line 99 with a guard that rejects a size of 2^32 or more.
CastRejectsOversized ==
    /\ pc = "cast"
    /\ IF SubSeq(blob_size, 1, 4) # <<0, 0, 0, 0>> THEN
           /\ pc' = "caught"
           /\ exc' = "length_error"
           /\ UNCHANGED size
       ELSE
           /\ size' = htonl(Cast32(blob_size))
           /\ pc' = "prefix"
           /\ UNCHANGED exc
    /\ UNCHANGED <<args, exitCode, reported, documents_, zeroes_, curr_num_,
                   written_, out_, sinks, archiveOpen, dirCreated, nread,
                   doc_no, blob, admitted, it, decisions, blob_size, streamed>>

\* Line 99: uint32_t size = htonl(static_cast<uint32_t>(blob.size())).
\* No test of the size comes before it.
Cast ==
    /\ pc = "cast"
    /\ size' = htonl(Cast32(blob_size))
    /\ pc' = "prefix"
    /\ UNCHANGED <<args, exitCode, exc, reported, documents_, zeroes_,
                   curr_num_, written_, out_, sinks, archiveOpen, dirCreated,
                   nread, doc_no, blob, admitted, it, decisions, blob_size,
                   streamed>>

\* Line 100: the four bytes of size go to the sink.
WritePrefix ==
    /\ pc = "prefix"
    /\ streamed' = [streamed EXCEPT !.prefix = HostBytes(size)]
    /\ pc' = "payload"
    /\ UNCHANGED <<args, exitCode, exc, reported, documents_, zeroes_,
                   curr_num_, written_, out_, sinks, archiveOpen, dirCreated,
                   nread, doc_no, blob, admitted, it, decisions, blob_size,
                   size>>

\* Lines 101-102: blob.size() bytes go to the sink (the size is below 2^63,
\* so its conversion to std::streamsize keeps it), then written_++.
WritePayload ==
    /\ pc = "payload"
    /\ streamed' = [streamed EXCEPT !.count = blob_size]
    /\ written_' = written_ + 1
    /\ pc' = "wrote"
    /\ UNCHANGED <<args, exitCode, exc, reported, documents_, zeroes_,
                   curr_num_, out_, sinks, archiveOpen, dirCreated,
                   nread, doc_no, blob, admitted, it, decisions, blob_size,
                   size>>

WideNext ==
    \/ Cast
    \/ WritePrefix
    \/ WritePayload

WideSpec == WideInit /\ [][WideNext]_vars

-----------------------------------------------------------------------------
(* Claims about the classification, checked under FilterSpec. *)

Decisions == {"Admit", "DropNotArticleNamespace", "DropRedirect", "DropDeleted",
              "DropDisambiguation"}

\* The decision the fixed rule order gives record rec under pattern.
RuleOrderAllows(rec, pattern, d) ==
    /\ d \in Decisions
    /\ (d = "DropNotArticleNamespace") <=> (rec.ns # "A")
    /\ (d = "DropRedirect") <=> (rec.ns = "A" /\ rec.redirect)
    /\ (d = "DropDeleted") <=> (rec.ns = "A" /\ ~rec.redirect /\ rec.deleted)
    /\ (d = "DropDisambiguation") <=>
           (rec.ns = "A" /\ ~rec.redirect /\ ~rec.deleted
               /\ Contains(rec.title, pattern))
    /\ (d = "Admit") <=>
           (rec.ns = "A" /\ ~rec.redirect /\ ~rec.deleted
               /\ ~Contains(rec.title, pattern))

\* C6: every decision reported for a record is the one decision the rule
\* order namespace, redirect, deleted, disambiguation, admit gives for that
\* record and the pattern, whatever the admitted counter and the writer's
\* counter are; classifying the record a second time reports the same
\* decision.
C6_FilterDecision ==
    pc = "filter" =>
        /\ \A k \in 1..Len(decisions) :
               RuleOrderAllows(it[1], DisambigLookup(args.language), decisions[k])
        /\ Len(decisions) = 2 => decisions[1] = decisions[2]

\* C6 witness: a redirect that is also deleted, in namespace A, has been
\* classified twice after the counter moved, and was dropped as a redirect.
C6_Witness ==
    /\ pc = "filter"
    /\ Len(decisions) = 2
    /\ it[1].ns = "A" /\ it[1].redirect /\ it[1].deleted
    /\ Contains(it[1].title, DisambigLookup(args.language))
    /\ decisions[2] = "DropRedirect"
    /\ written_ = documents_

\* C7: under a language that is not in the disambiguation table the
\* pattern is empty and matches no title: no record is classified
\* DropDisambiguation, and every record of namespace A that is neither a
\* redirect nor deleted is admitted.
C7_EmptyPatternMatchesNothing ==
    (pc = "filter" /\ args.language \notin DOMAIN disambig) =>
        \A k \in 1..Len(decisions) :
            /\ decisions[k] # "DropDisambiguation"
            /\ (it[1].ns = "A" /\ ~it[1].redirect /\ ~it[1].deleted)
                   => decisions[k] = "Admit"

-----------------------------------------------------------------------------
(* The reader's side of the file format, and what the claims below speak   *)
(* of.                                                                     *)

\* bw exists: parse returned and the constructor ran.
BwConstructed ==
    /\ pc \notin {"parse", "filter"}
    /\ ~args.malformed /\ ~args.help /\ args.input /\ args.output

\* main is between two passes of the loop, or past the loop.
BetweenWrites == pc \in {"loop", "caught", "return", "exited"}

OpenSinks == {i \in 1..Len(sinks) : sinks[i].open}

DigitValue(ch) ==
    CASE ch = "0" -> 0 [] ch = "1" -> 1 [] ch = "2" -> 2 [] ch = "3" -> 3
      [] ch = "4" -> 4 [] ch = "5" -> 5 [] ch = "6" -> 6 [] ch = "7" -> 7
      [] ch = "8" -> 8 [] ch = "9" -> 9

IsDigit(ch) == ch \in {"0", "1", "2", "3", "4", "5", "6", "7", "8", "9"}

\* The number a string of decimal digits denotes, leading zeros allowed.
RECURSIVE DecimalValue(_)
DecimalValue(digits) ==
    IF digits = <<>> THEN 0
    ELSE 10 * DecimalValue(SubSeq(digits, 1, Len(digits) - 1))
           + DigitValue(digits[Len(digits)])

\* The unsigned number four bytes denote, most significant byte first.
DecodeBigEndian4(b) == ((b[1] * 256 + b[2]) * 256 + b[3]) * 256 + b[4]

\* A byte stream split into [4-byte big-endian length][payload] frames:
\* ok is FALSE when the stream ends inside a frame.
RECURSIVE ParseFrames(_)
ParseFrames(bytes) ==
    IF bytes = <<>> THEN [ok |-> TRUE, frames |-> <<>>]
    ELSE IF Len(bytes) < 4 THEN [ok |-> FALSE, frames |-> <<>>]
    ELSE LET n == DecodeBigEndian4(bytes) IN
         IF Len(bytes) < 4 + n THEN [ok |-> FALSE, frames |-> <<>>]
         ELSE LET rest == ParseFrames(SubSeq(bytes, 5 + n, Len(bytes))) IN
              [ok |-> rest.ok,
               frames |-> <<SubSeq(bytes, 5, 4 + n)>> \o rest.frames]

\* The contents of the files 1..n, in increasing index order.
RECURSIVE ConcatData(_)
ConcatData(n) == IF n = 0 THEN <<>> ELSE ConcatData(n - 1) \o sinks[n].data

CeilDiv(a, b) == (a + b - 1) \div b

-----------------------------------------------------------------------------
(* Claims about the run, checked under Spec. *)

\* C1: at the end of a run with capacity > 0, a positive name width and no
\* I/O failure, the contents of the produced files, concatenated in
\* increasing index order and parsed as frames, are exactly the admitted
\* payloads in admission order.
C1_FramingRoundTrip ==
    (pc = "exited" /\ BwConstructed /\ documents_ > 0 /\ zeroes_ > 0
        /\ exc # "io") =>
        ParseFrames(ConcatData(Len(sinks))) = [ok |-> TRUE, frames |-> admitted]

\* The capacity invariant of a finished run, for C2: every file but the
\* last holds exactly documents_ frames, the last one between 1 and
\* documents_.
CapacityHolds ==
    \A i \in 1..Len(sinks) :
        LET p == ParseFrames(sinks[i].data) IN
          /\ p.ok
          /\ i < Len(sinks) => Len(p.frames) = documents_
          /\ i = Len(sinks) => Len(p.frames) \in 1..documents_

\* C2 as stated: at the end of any run with capacity > 0 and at least one
\* admitted record, every produced file but the highest-index one holds
\* exactly documents_ frames and the highest-index one between 1 and
\* documents_.
C2_CapacityAnyRun ==
    (pc = "exited" /\ BwConstructed /\ documents_ > 0 /\ Len(admitted) >= 1) =>
        CapacityHolds

\* C2 amended: the same at the end of any such run in which no I/O
\* operation failed.
C2_CapacityNoIoFailure ==
    (pc = "exited" /\ BwConstructed /\ documents_ > 0 /\ Len(admitted) >= 1
        /\ exc # "io") =>
        CapacityHolds

\* C2 witness: a run without failure ended with two full files and a
\* partly filled third one.
C2_Witness ==
    /\ pc = "exited" /\ exc = "none" /\ documents_ = 2
    /\ Len(sinks) = 3
    /\ Len(admitted) = 5

\* C3: with capacity c > 0, a positive name width and no I/O failure, once the loop body has run
\* for it, the i-th admitted record is frame ((i-1) mod c)+1 of the file
\* with index ceil(i/c); dropped records take no slot.
C3_Placement ==
    (BwConstructed /\ BetweenWrites /\ documents_ > 0 /\ zeroes_ > 0
        /\ exc # "io") =>
        \A i \in 1..Len(admitted) :
            LET f == CeilDiv(i, documents_)
                k == ((i - 1) % documents_) + 1
            IN  /\ f <= Len(sinks)
                /\ LET p == ParseFrames(sinks[f].data) IN
                     /\ k <= Len(p.frames)
                     /\ p.frames[k] = admitted[i]

\* C4: the files opened are those of the indices 1, 2, 3, ... in the order
\* they are opened, and the i-th is named by i in decimal, left-padded
\* with zeros to zeroes_ digits, followed by ".htmls.gz".
C4_NamingMonotonic ==
    BwConstructed =>
        \A i \in 1..Len(sinks) :
            LET name == sinks[i].name
                digits == SubSeq(name, 1, zeroes_)
            IN  /\ Len(name) = zeroes_ + Len(Suffix)
                /\ SubSeq(name, zeroes_ + 1, Len(name)) = Suffix
                /\ \A j \in 1..zeroes_ : IsDigit(digits[j])
                /\ DecimalValue(digits) = i

\* C4 witness: ten files were opened under a width of two digits: nine
\* padded names and "10.htmls.gz".
C4_Witness ==
    /\ BwConstructed
    /\ zeroes_ = 2
    /\ Len(sinks) = 10
    /\ sinks[10].name = <<"1", "0">> \o Suffix
    /\ sinks[9].name = <<"0", "9">> \o Suffix

\* C5: once write has reached, without I/O failure, an index with more
\* decimal digits than zeroes_ (here a positive zeroes_), the file of that index is open under the
\* unpadded, untruncated decimal index followed by ".htmls.gz".
C5_WidthOverflowNaming ==
    (BwConstructed /\ pc # "write" /\ curr_num_ >= 1 /\ exc # "io"
        /\ zeroes_ > 0 /\ Len(to_string(curr_num_)) > zeroes_) =>
        /\ Len(sinks) = curr_num_
        /\ sinks[curr_num_].name = to_string(curr_num_) \o Suffix

\* C8: with capacity > 0 (and a positive name width), written_ <=
\* documents_ in every state; and a write entered with written_ =
\* documents_ opens a new file before it
\* frames, so that (no I/O operation failing) the payload becomes the first
\* frame of the new file and written_ becomes 1.
C8_CounterInvariant ==
    [][ /\ documents_' > 0 => written_' <= documents_'
        /\ (pc = "write" /\ documents_ > 0 /\ zeroes_ > 0
               /\ written_ = documents_ /\ exc' # "io") =>
              /\ pc' = "reset"
              /\ Len(sinks') = Len(sinks) + 1
              /\ sinks'[Len(sinks')] = NewSink(sinks'[Len(sinks')].name)
        /\ pc = "reset" => (pc' = "frame" /\ out_' = Len(sinks) /\ written_' = 0)
        /\ (pc = "frame" /\ exc' # "io") =>
              /\ written_' = 1
              /\ sinks'[out_].data = LengthPrefix(blob[1]) \o blob[1]
      ]_vars

C10_AllSinksClosedAtExit ==
    pc = "exited" => OpenSinks = {}

\* C10 witness: a write failed in the second file, with the prefix of the
\* frame already out, and the process has ended.
C10_Witness ==
    /\ pc = "exited"
    /\ exc = "io"
    /\ Len(sinks) = 2
    /\ written_ < documents_
    /\ ~ParseFrames(sinks[2].data).ok

-----------------------------------------------------------------------------
(* Claims about errors and about the files, checked under Spec. *)

\* C11: once parse is over for a well-formed command line without -h that
\* lacks -i or -o, or names a language that is not in the table, the
\* process has ended with a non-zero status, and the archive was not
\* opened, the directory not created and no file opened.
C11_ConfigErrorsStopTheRun ==
    (pc # "parse" /\ ~args.malformed /\ ~args.help
        /\ (~args.input \/ ~args.output \/ args.language \notin DOMAIN disambig)) =>
        /\ pc = "exited"
        /\ exitCode # <<>> /\ exitCode # <<0>>
        /\ ~archiveOpen /\ ~dirCreated /\ sinks = <<>>

\* C12: after an I/O failure nothing is retried: no step reads or
\* classifies a record, opens the archive, creates the directory or opens
\* a file, and no file already there changes its name or its content.
C12_FatalIoFailure ==
    [][ exc = "io" =>
          /\ exc' = "io"
          /\ pc' \in {"caught", "exited"}
          /\ UNCHANGED <<nread, doc_no, admitted, archiveOpen, dirCreated,
                         curr_num_, written_>>
          /\ Len(sinks') = Len(sinks)
          /\ \A i \in 1..Len(sinks) :
                /\ sinks'[i].name = sinks[i].name
                /\ sinks'[i].data = sinks[i].data
      ]_vars

\* C12 witness: a write failed with the length prefix of the third record
\* already out; the run has ended with records left unread and the file
\* as the failure left it.
C12_Witness ==
    /\ pc = "exited" /\ exc = "io"
    /\ documents_ = 2 /\ doc_no = 3 /\ nread = 3
    /\ Len(sinks) = 2
    /\ sinks[2].data = LengthPrefix(admitted[3])

\* C13: a run that an exception ended has printed the message and has the
\* status of a run that nothing interrupted, which is 0.
C13_ExitStatusAfterFailure ==
    (pc = "exited" /\ BwConstructed) =>
        /\ exitCode = <<0>>
        /\ reported <=> (exc # "none")

\* C13 witness: the directory could not be created; the message was
\* printed and the status is 0.
C13_Witness ==
    /\ pc = "exited" /\ exc = "io"
    /\ archiveOpen /\ ~dirCreated
    /\ reported /\ exitCode = <<0>>

\* C14 as stated: no file exists unless a record was admitted, and
\* whenever no write call is under way every file holds at least one
\* whole frame.
C14_NoEmptyFileAnyRun ==
    /\ doc_no = 0 => sinks = <<>>
    /\ pc \notin {"write", "reset", "frame"} =>
          \A i \in 1..Len(sinks) :
              LET p == ParseFrames(sinks[i].data) IN
                p.ok /\ Len(p.frames) >= 1

\* C14 amended: no file exists unless a record was admitted, there are
\* never more files than admitted records, and whenever no write call is
\* under way and no I/O operation has failed every file holds at least
\* one whole frame.
C14_NoEmptyFile ==
    /\ doc_no = 0 => sinks = <<>>
    /\ Len(sinks) <= doc_no
    /\ (pc \notin {"write", "reset", "frame"} /\ exc # "io") =>
          \A i \in 1..Len(sinks) :
              LET p == ParseFrames(sinks[i].data) IN
                p.ok /\ Len(p.frames) >= 1

\* C14 witness: the third admitted record opened the second file and was
\* framed into it; a later record was dropped and opened nothing.
C14_Witness ==
    /\ pc = "loop" /\ exc = "none"
    /\ documents_ = 2 /\ doc_no = 3 /\ nread = 4
    /\ Len(sinks) = 2
    /\ Len(ParseFrames(sinks[2].data).frames) = 1

\* Payload lengths that put a non-zero digit in each of the four bytes.
PrefixLengths == {0, 1, 2, 255, 256, 258, 65535, 65536, 16777216, 16909060}

RECURSIVE FramesIn(_)
FramesIn(s) ==
    IF s = <<>> THEN 0
    ELSE Len(ParseFrames(s[Len(s)].data).frames)
           + FramesIn(SubSeq(s, 1, Len(s) - 1))

\* C17: with documents_ > 0 and no failure, whenever no write call is
\* under way the number of records written so far, which is doc_no and is
\* the number of frames in the files, equals
\* (curr_num_ - 1) * documents_ + written_, also before the first write
\* (curr_num_ = 0, written_ = documents_); and curr_num_ is the number of
\* files opened so far.
C17_Accounting ==
    (BwConstructed /\ documents_ > 0 /\ exc = "none"
        /\ pc \notin {"write", "reset", "frame"}) =>
        /\ (curr_num_ - 1) * documents_ + written_ = doc_no
        /\ FramesIn(sinks) = doc_no
        /\ curr_num_ = Len(sinks)

\* C17 witness: capacity 2, three records written, the second file holds
\* one.
C17_Witness ==
    /\ pc = "loop" /\ exc = "none"
    /\ documents_ = 2 /\ curr_num_ = 2 /\ written_ = 1
    /\ doc_no = 3 /\ FramesIn(sinks) = 3

-----------------------------------------------------------------------------
(* The claim about sizes of 2^32 and more, checked under WideSpec. *)

\* A size of 2^32 or more: one of the four high digits is not 0.
Oversized(x) == \E i \in 1..4 : x[i] # 0

\* x modulo 2^32 as a size: the digits of weight 2^32 and more set to 0.
ModTwo32(x) == [i \in 1..8 |-> IF i <= 4 THEN 0 ELSE x[i]]

\* The length a reader takes from four prefix bytes, as a size.
PrefixAsSize(b) == <<0, 0, 0, 0>> \o b

\* a < b for two sizes.
RECURSIVE DigitsLess(_, _)
DigitsLess(a, b) ==
    IF a = <<>> THEN FALSE
    ELSE IF a[1] # b[1] THEN a[1] < b[1]
    ELSE DigitsLess(Tail(a), Tail(b))

\* C18: write neither fails on nor rejects a payload because of its
\* length L; it sends a prefix that reads as L mod 2^32 and then all L
\* payload bytes; when L >= 2^32 the prefix differs from L and a reader
\* takes a first frame shorter than the payload, so it does not get the
\* payload back; when L < 2^32 the prefix is L.
C18_OversizedPayload ==
    /\ pc \in {"cast", "prefix", "payload", "wrote"}
    /\ exc = "none"
    /\ pc = "wrote" =>
          /\ Len(streamed.prefix) = 4
          /\ PrefixAsSize(streamed.prefix) = ModTwo32(blob_size)
          /\ streamed.count = blob_size
          /\ Oversized(blob_size) =>
                /\ PrefixAsSize(streamed.prefix) # blob_size
                /\ DigitsLess(PrefixAsSize(streamed.prefix), streamed.count)
          /\ ~Oversized(blob_size) =>
                PrefixAsSize(streamed.prefix) = blob_size

\* C18 witness: a payload of 2^32 + 1 bytes went out whole behind a prefix
\* that reads 1.
C18_Witness ==
    /\ pc = "wrote"
    /\ blob_size = <<0, 0, 0, 1, 0, 0, 0, 1>>
    /\ streamed.prefix = <<0, 0, 0, 1>>
    /\ streamed.count = blob_size

-----------------------------------------------------------------------------
(* Claims about a capacity of 0 and about the order of the first steps,
   checked under Spec. *)

\* C19: in a run with -d 0 that no I/O failure has ended, whenever no
\* write call is under way and a record has been admitted, there is the
\* single file with index 1, it holds every admitted record, and written_
\* exceeds the capacity.
C19_ZeroCapacity ==
    (BwConstructed /\ documents_ = 0 /\ exc # "io" /\ doc_no >= 1
        /\ pc \notin {"write", "reset", "frame"}) =>
        /\ curr_num_ = 1
        /\ Len(sinks) = 1
        /\ written_ = doc_no
        /\ written_ > documents_
        /\ FramesIn(sinks) = doc_no

\* C20: the directory is created only after the archive was opened, a
\* record is read only after both, a file is opened only after the
\* directory creation step has completed; and past the opening step, if
\* the archive was not opened, the run has failed with no directory
\* created, no file opened and no record read.
C20_StartupOrdering ==
    /\ dirCreated => archiveOpen
    /\ nread > 0 => (archiveOpen /\ dirCreated)
    /\ sinks # <<>> => dirCreated
    /\ pc \in {"mkdir", "loop", "write", "reset", "frame", "return"}
          => archiveOpen
    /\ pc \in {"loop", "write", "reset", "frame", "return"} => dirCreated
    /\ (BwConstructed /\ pc # "open" /\ ~archiveOpen) =>
          /\ exc = "io"
          /\ pc \in {"caught", "exited"}
          /\ ~dirCreated
          /\ sinks = <<>>
          /\ nread = 0 /\ doc_no = 0

\* C20 witness: opening the archive failed; the run ended with the message
\* printed, no directory and no file.
C20_Witness ==
    /\ pc = "exited" /\ BwConstructed
    /\ exc = "io" /\ reported
    /\ ~archiveOpen /\ ~dirCreated
    /\ sinks = <<>>

=============================================================================
